---- MODULE Spec2Model ----
(***************************************************************************)
(* Model of src/main.py: CameraApp (a Kivy application) running on one     *)
(* asyncio event loop.  app_func creates one stream_camera task per name   *)
(* in STREAM_NAMES and gathers them with run_wrapper, the task that runs   *)
(* the UI.  Callbacks that asyncio schedules with call_soon (first steps   *)
(* of tasks, cancellation wake-ups, done callbacks of the gather, the      *)
(* wake-up of app_func, the stop of run_until_complete) run in FIFO order  *)
(* from the loop's ready queue; events of the transport, timers and user   *)
(* actions arrive at any time.                                             *)
(***************************************************************************)
EXTENDS Naturals, Sequences, FiniteSets

VARIABLES
    config,        \* config_list.configs: the sequence of service names
    appPc,         \* position of app_func: "start", "gather", "done"
    appResult,     \* how app_func ended: "none", a result or an exception
    main,          \* the main block: "run_until_complete", "closed", "crashed"
    tasks,         \* self.tasks: state of the stream_camera task of each stream
    exc,           \* the exception a stream task ended with
    mustCancel,    \* a cancel() was requested and is not delivered yet
    async_tasks,   \* self.async_tasks
    view_name,     \* self.view_name
    root,          \* self.root is not None
    ui,            \* run_wrapper / async_run
    ready,         \* the event loop's FIFO queue of scheduled callbacks
    batch,         \* callbacks of the current loop iteration still to run
    outer,         \* the future of asyncio.gather
    nfinished,     \* children of the gather that are done
    payload,       \* the payload each stream task received last
    subscriptions, \* subscribe() calls made by each stream task
    delivered,     \* events the subscription delivered to each stream task
    decodes,       \* image_decoder.decode calls of each stream task
    presents,      \* texture assignments made by each stream task
    surface        \* self.root.ids[name].texture

vars == <<config, appPc, appResult, main, tasks, exc, mustCancel, async_tasks,
          view_name, root, ui, ready, batch, outer, nfinished, payload,
          subscriptions, delivered, decodes, presents, surface>>

(* ----------------------------- bounds ---------------------------------- *)
\* events delivered in all, in StreamSpec and in Spec
MaxEvents == 3
MaxLifecycleEvents == 1
\* transport failures in all
MaxFailures == 1

(* ---------------------------- constants -------------------------------- *)
STREAM_NAMES == <<"rgb", "disparity", "left", "right">>

StreamSet == {STREAM_NAMES[i] : i \in 1..Len(STREAM_NAMES)}

PayloadKinds == {"valid", "badjpeg", "badproto"}

NoTexture == [stream |-> "none", seq |-> 0]

Terminated == {"cancelled", "failed"}

Suspended == {"poll", "recv"}

\* line 62: the view selected at startup
DefaultViewUnknown == "color"

DefaultView == "rgb"

\* the names the tabs of res/main.kv pass to update_view: the stream names
ViewArgs == StreamSet

\* the service configuration files tried: empty, without oak0, with oak0
ConfigLists == {<<>>, <<"gps">>, <<"gps", "gps">>, <<"oak0", "gps">>}

RECURSIVE SumOver(_, _)
SumOver(f, S) ==
    IF S = {} THEN 0
    ELSE LET x == CHOOSE y \in S : TRUE IN f[x] + SumOver(f, S \ {x})

(* --------------------------- CameraApp --------------------------------- *)
Init ==
    /\ config \in ConfigLists
    /\ appPc = "start"
    /\ appResult = "none"
    /\ main = "run_until_complete"
    /\ tasks = [s \in StreamSet |-> "none"]
    /\ exc = [s \in StreamSet |-> "none"]
    /\ mustCancel = [s \in StreamSet |-> FALSE]
    /\ async_tasks = {}
    /\ view_name = DefaultView
    /\ root = FALSE
    /\ ui = "notstarted"
    /\ ready = <<>>
    /\ batch = 0
    /\ outer = "none"
    /\ nfinished = 0
    /\ payload = [s \in StreamSet |-> "none"]
    /\ subscriptions = [s \in StreamSet |-> 0]
    /\ delivered = [s \in StreamSet |-> 0]
    /\ decodes = [s \in StreamSet |-> 0]
    /\ presents = [s \in StreamSet |-> 0]
    /\ surface = [s \in StreamSet |-> NoTexture]

Running == main = "run_until_complete"

\* between two iterations the loop polls its timers and the transport
Idle == Running /\ batch = 0

\* one iteration runs the callbacks that were ready when it began, in order
RunHead(cb, who) ==
    /\ Running /\ ready # <<>> /\ ready[1] = <<cb, who>>
    /\ batch' = (IF batch = 0 THEN Len(ready) ELSE batch) - 1

\* the loop over config_list.configs: the last config named oak0, 0 for None
RECURSIVE Oak0ClientDropsName(_, _)
Oak0ClientDropsName(configs, i) ==
    IF i > Len(configs) THEN 0
    ELSE LET rest == Oak0ClientDropsName(configs, i + 1)
         IN  IF rest # 0 THEN rest ELSE i

RECURSIVE Oak0Client(_, _)
Oak0Client(configs, i) ==
    IF i > Len(configs) THEN 0
    ELSE LET rest == Oak0Client(configs, i + 1)
         IN  IF rest # 0 THEN rest
             ELSE IF configs[i] = "oak0" THEN i ELSE 0

\* the exception of line 97: the f-string reads config, unbound on an empty list
MissingConfigError(configs) ==
    IF Len(configs) = 0 THEN "UnboundLocalError" ELSE "RuntimeError"

\* lines 100-105 with the UI started before the stream tasks are stored
AppFuncStartUiFirst ==
    /\ Idle /\ appPc = "start" /\ ready = <<>>
    /\ ready' = <<<<"step", "run_wrapper">>>>
    /\ outer' = "pending"
    /\ appPc' = "gather"
    /\ UNCHANGED <<config, batch, appResult, main, tasks, exc, mustCancel, async_tasks,
                   view_name, root, ui, nfinished, payload, subscriptions, delivered,
                   decodes, presents, surface>>

AppFuncStart ==
    /\ Idle /\ appPc = "start" /\ ready = <<>>
    /\ IF Oak0Client(config, 1) = 0
       THEN /\ appPc' = "done"
            /\ appResult' = MissingConfigError(config)
            /\ ready' = <<<<"stop", "loop">>>>
            /\ UNCHANGED <<tasks, outer>>
       ELSE /\ tasks' = [s \in StreamSet |-> "created"]
            /\ ready' = [i \in 1..Len(STREAM_NAMES) |-> <<"step", STREAM_NAMES[i]>>]
                          \o <<<<"step", "run_wrapper">>>>
            /\ outer' = "pending"
            /\ appPc' = "gather"
            /\ UNCHANGED appResult
    /\ UNCHANGED <<config, batch, main, exc, mustCancel, async_tasks, view_name, root, ui,
                   nfinished, payload, subscriptions, delivered, decodes, presents,
                   surface>>

(* --------------------------- stream_camera ----------------------------- *)
\* line 113: the readiness gate, self.root is not None
SurfaceReadyUnchecked == TRUE

SurfaceReady == root

\* lines 113-121: poll the gate; once it is open read the rate and subscribe
EnterStream(s) ==
    IF SurfaceReady
    THEN /\ tasks' = [tasks EXCEPT ![s] = "recv"]
         /\ subscriptions' = [subscriptions EXCEPT ![s] = @ + 1]
    ELSE /\ tasks' = [tasks EXCEPT ![s] = "poll"]
         /\ UNCHANGED subscriptions

\* the first step of a stream task, scheduled by create_task
TaskFirstStep(s) ==
    /\ RunHead("step", s)
    /\ IF mustCancel[s]
       THEN /\ tasks' = [tasks EXCEPT ![s] = "cancelled"]
            /\ mustCancel' = [mustCancel EXCEPT ![s] = FALSE]
            /\ ready' = Tail(ready) \o <<<<"done", s>>>>
            /\ UNCHANGED subscriptions
       ELSE /\ EnterStream(s)
            /\ ready' = Tail(ready)
            /\ UNCHANGED mustCancel
    /\ UNCHANGED <<config, appPc, appResult, main, exc, async_tasks, view_name, root,
                   ui, outer, nfinished, payload, delivered, decodes, presents,
                   surface>>

\* asyncio.sleep(0.01) of line 114 expires and the loop test runs again
PollTimer(s) ==
    /\ Idle /\ tasks[s] = "poll" /\ ~mustCancel[s]
    /\ EnterStream(s)
    /\ UNCHANGED <<config, batch, appPc, appResult, main, exc, mustCancel, async_tasks,
                   view_name, root, ui, ready, outer, nfinished, payload, delivered,
                   decodes, presents, surface>>

\* line 122: the gate on the active view
IsActiveAlways(s) == TRUE

IsActiveNever(s) == s # view_name

IsActiveAtStartup(s) == s = DefaultView

IsActive(s) == s = view_name

\* line 123: payload_to_protobuf parses the payload, outside the try block
ParseOk(k) == k # "badproto"

\* lines 124-128: image_decoder.decode inside try/except Exception
DecodeOk(k) == k = "valid"

\* line 141: the surface the texture is assigned to
SurfaceKeyRgb(s) == "rgb"

SurfaceKey(s) == s

\* lines 123-141: the frame shown is the one decoded from the event just received
FrameStale(s) == [stream |-> s, seq |-> delivered[s]]

Frame(s) == [stream |-> s, seq |-> delivered[s] + 1]

\* lines 118-141: one iteration of the async for loop; it has no await in it
StreamEvent(s, k) ==
    /\ Idle /\ tasks[s] = "recv" /\ ~mustCancel[s]
    /\ delivered' = [delivered EXCEPT ![s] = @ + 1]
    /\ payload' = [payload EXCEPT ![s] = k]
    /\ IF ~IsActive(s)
       THEN UNCHANGED <<tasks, exc, ready, decodes, presents, surface>>
       ELSE IF ~ParseOk(k)
       THEN /\ tasks' = [tasks EXCEPT ![s] = "failed"]
            /\ exc' = [exc EXCEPT ![s] = "DecodeError"]
            /\ ready' = ready \o <<<<"done", s>>>>
            /\ UNCHANGED <<decodes, presents, surface>>
       ELSE /\ decodes' = [decodes EXCEPT ![s] = @ + 1]
            /\ UNCHANGED <<tasks, exc, ready>>
            /\ IF DecodeOk(k)
               THEN /\ presents' = [presents EXCEPT ![s] = @ + 1]
                    /\ surface' = [surface EXCEPT ![SurfaceKey(s)] = Frame(s)]
               ELSE UNCHANGED <<presents, surface>>
    /\ UNCHANGED <<config, batch, appPc, appResult, main, mustCancel, async_tasks, view_name,
                   root, ui, outer, nfinished, subscriptions>>

\* line 118: the subscribe iterator raises (the transport fails)
SubscribeFails(s) ==
    /\ Idle /\ tasks[s] = "recv" /\ ~mustCancel[s]
    /\ tasks' = [tasks EXCEPT ![s] = "failed"]
    /\ exc' = [exc EXCEPT ![s] = "SubscriptionError"]
    /\ ready' = ready \o <<<<"done", s>>>>
    /\ UNCHANGED <<config, batch, appPc, appResult, main, mustCancel, async_tasks, view_name,
                   root, ui, outer, nfinished, payload, subscriptions, delivered,
                   decodes, presents, surface>>

\* CancelledError is thrown into the task at its suspension point (lines 114, 118)
CancelSwallowed(s) == tasks[s]

CancelResubscribes(s) == "poll"

CancelOutcome(s) == "cancelled"

TaskCancelWakeup(s) ==
    /\ RunHead("wakeup", s)
    /\ tasks' = [tasks EXCEPT ![s] = CancelOutcome(s)]
    /\ mustCancel' = [mustCancel EXCEPT ![s] = FALSE]
    /\ ready' = Tail(ready) \o
                  (IF tasks'[s] \in Terminated THEN <<<<"done", s>>>> ELSE <<>>)
    /\ UNCHANGED <<config, appPc, appResult, main, exc, async_tasks, view_name, root,
                   ui, outer, nfinished, payload, subscriptions, delivered, decodes,
                   presents, surface>>

(* ------------------------- UI: run_wrapper ----------------------------- *)
\* Task.cancel() on each task of a list: the tasks it wakes, in list order
CancelWakes(targets) ==
    SelectSeq([i \in 1..Len(STREAM_NAMES) |-> <<"wakeup", STREAM_NAMES[i]>>],
              LAMBDA h : /\ h[2] \in targets
                         /\ tasks[h[2]] \in Suspended
                         /\ ~mustCancel[h[2]])

CancelMarks(targets) ==
    [s \in StreamSet |->
        IF s \in targets /\ tasks[s] \in (Suspended \cup {"created"})
        THEN TRUE ELSE mustCancel[s]]

\* line 82: async_run starts; build() makes the root widget, or raises
UiStart(ok) ==
    /\ RunHead("step", "run_wrapper")
    /\ IF ok
       THEN /\ root' = TRUE
            /\ ui' = "running"
            /\ ready' = Tail(ready)
       ELSE /\ ui' = "raised"
            /\ ready' = Tail(ready) \o <<<<"done", "run_wrapper">>>>
            /\ UNCHANGED root
    /\ UNCHANGED <<config, appPc, appResult, main, tasks, exc, mustCancel, async_tasks,
                   view_name, outer, nfinished, payload, subscriptions, delivered,
                   decodes, presents, surface>>

\* lines 75-76
update_viewClearsSurface(v) ==
    /\ Idle /\ ui = "running"
    /\ view_name' = v
    /\ surface' = [surface EXCEPT ![view_name] = NoTexture]
    /\ UNCHANGED <<config, batch, appPc, appResult, main, tasks, exc, mustCancel, async_tasks,
                   root, ui, ready, outer, nfinished, payload, subscriptions, delivered,
                   decodes, presents>>

update_view(v) ==
    /\ Idle /\ ui = "running"
    /\ view_name' = v
    /\ UNCHANGED <<config, batch, appPc, appResult, main, tasks, exc, mustCancel, async_tasks,
                   root, ui, ready, outer, nfinished, payload, subscriptions, delivered,
                   decodes, presents, surface>>

\* lines 69-73: the list on_exit_btn cancels
ExitTargetsAsyncTasks == async_tasks

ExitTargets == {s \in StreamSet : tasks[s] # "none"}

\* line 73: what App.get_running_app() returns; Kivy's App.stop() may clear the
\* running app, and then a later call returns None
GetRunningApp == IF ui = "running" THEN {"app"} ELSE {"app", "None"}

\* lines 69-73: cancel every task of the list, then stop the application; on None
\* line 73 raises AttributeError, which ends async_run and run_wrapper
on_exit_btn ==
    /\ Idle /\ ui \in {"running", "stopping"}
    /\ mustCancel' = CancelMarks(ExitTargets)
    /\ \E app \in GetRunningApp :
          IF app = "None"
          THEN /\ ui' = "raised"
               /\ ready' = ready \o CancelWakes(ExitTargets)
                                \o <<<<"done", "run_wrapper">>>>
          ELSE /\ ui' = "stopping"
               /\ ready' = ready \o CancelWakes(ExitTargets)
    /\ UNCHANGED <<config, batch, appPc, appResult, main, tasks, exc, async_tasks, view_name,
                   root, outer, nfinished, payload, subscriptions, delivered, decodes,
                   presents, surface>>

\* lines 82-84: async_run returns (after stop(), or the window was closed) and
\* run_wrapper cancels the tasks of self.async_tasks
UiReturn ==
    /\ Idle /\ ui \in {"running", "stopping"}
    /\ mustCancel' = CancelMarks(async_tasks)
    /\ ready' = ready \o CancelWakes(async_tasks) \o <<<<"done", "run_wrapper">>>>
    /\ ui' = "returned"
    /\ UNCHANGED <<config, batch, appPc, appResult, main, tasks, exc, async_tasks, view_name,
                   root, outer, nfinished, payload, subscriptions, delivered, decodes,
                   presents, surface>>

\* line 82: async_run raises while the UI runs
UiRaise ==
    /\ Idle /\ ui = "running"
    /\ ui' = "raised"
    /\ ready' = ready \o <<<<"done", "run_wrapper">>>>
    /\ UNCHANGED <<config, batch, appPc, appResult, main, tasks, exc, mustCancel, async_tasks,
                   view_name, root, outer, nfinished, payload, subscriptions, delivered,
                   decodes, presents, surface>>

(* ------------------- gather, app_func, the main block ------------------ *)
Children == StreamSet \cup {"run_wrapper"}

\* how a child of the gather ended: "result", "CancelledError" or its exception
ChildOutcome(c) ==
    IF c = "run_wrapper"
    THEN (IF ui = "raised" THEN "UIError" ELSE "result")
    ELSE (IF tasks[c] = "cancelled" THEN "CancelledError" ELSE exc[c])

\* line 105: the done callback of asyncio.gather(..., return_exceptions=False)
GatherDone(c) ==
    /\ RunHead("done", c)
    /\ nfinished' = nfinished + 1
    /\ IF outer # "pending"
       THEN /\ ready' = Tail(ready)
            /\ UNCHANGED outer
       ELSE IF ChildOutcome(c) # "result"
       THEN /\ outer' = ChildOutcome(c)
            /\ ready' = Tail(ready) \o <<<<"wakeup", "main">>>>
       ELSE IF nfinished' = Cardinality(Children)
       THEN /\ outer' = "result"
            /\ ready' = Tail(ready) \o <<<<"wakeup", "main">>>>
       ELSE /\ ready' = Tail(ready)
            /\ UNCHANGED outer
    /\ UNCHANGED <<config, appPc, appResult, main, tasks, exc, mustCancel, async_tasks,
                   view_name, root, ui, payload, subscriptions, delivered, decodes,
                   presents, surface>>

\* line 105: app_func resumes with the result or the exception of the gather
AppFuncWakeup ==
    /\ RunHead("wakeup", "main")
    /\ appPc' = "done"
    /\ appResult' = outer
    /\ ready' = Tail(ready) \o <<<<"stop", "loop">>>>
    /\ UNCHANGED <<config, main, tasks, exc, mustCancel, async_tasks, view_name, root,
                   ui, outer, nfinished, payload, subscriptions, delivered, decodes,
                   presents, surface>>

\* lines 169-173: run_until_complete returns or raises; only CancelledError is caught
LoopStop ==
    /\ RunHead("stop", "loop")
    /\ main' = IF appResult \in {"result", "CancelledError"} THEN "closed" ELSE "crashed"
    /\ ready' = Tail(ready)
    /\ UNCHANGED <<config, appPc, appResult, tasks, exc, mustCancel, async_tasks,
                   view_name, root, ui, outer, nfinished, payload, subscriptions,
                   delivered, decodes, presents, surface>>

FailuresBelow(max) ==
    Cardinality({s \in StreamSet : exc[s] = "SubscriptionError"}) < max

EventsBelow(max) == SumOver(delivered, StreamSet) < max

\* the callbacks the event loop runs from its ready queue
RunReady ==
    \/ \E s \in StreamSet : TaskFirstStep(s)
    \/ \E s \in StreamSet : TaskCancelWakeup(s)
    \/ \E ok \in BOOLEAN : UiStart(ok)
    \/ \E c \in Children : GatherDone(c)
    \/ AppFuncWakeup
    \/ LoopStop

Next ==
    \/ AppFuncStart
    \/ RunReady
    \/ \E s \in StreamSet : PollTimer(s)
    \/ \E s \in StreamSet, k \in PayloadKinds :
          EventsBelow(MaxLifecycleEvents) /\ StreamEvent(s, k)
    \/ \E s \in StreamSet : FailuresBelow(MaxFailures) /\ SubscribeFails(s)
    \/ \E v \in ViewArgs : update_view(v)
    \/ on_exit_btn
    \/ UiReturn
    \/ UiRaise

\* the streaming phase alone: no exit, no end of the UI, no transport failure
StreamNext ==
    \/ AppFuncStart
    \/ \E s \in StreamSet : TaskFirstStep(s)
    \/ \E ok \in BOOLEAN : UiStart(ok)
    \/ \E c \in Children : GatherDone(c)
    \/ AppFuncWakeup
    \/ LoopStop
    \/ \E s \in StreamSet : PollTimer(s)
    \/ \E s \in StreamSet, k \in PayloadKinds :
          EventsBelow(MaxEvents) /\ StreamEvent(s, k)
    \/ \E v \in ViewArgs : update_view(v)

Spec == Init /\ [][Next]_vars

StreamSpec == Init /\ [][StreamNext]_vars

\* the runs without a transport failure: a stream task that failed is suspended
\* no more, so these are the runs in which exit can find all four tasks suspended
ExitNext ==
    \/ AppFuncStart
    \/ RunReady
    \/ \E s \in StreamSet : PollTimer(s)
    \/ \E s \in StreamSet, k \in PayloadKinds :
          EventsBelow(MaxLifecycleEvents) /\ StreamEvent(s, k)
    \/ \E v \in ViewArgs : update_view(v)
    \/ on_exit_btn
    \/ UiReturn
    \/ UiRaise

\* the event loop runs app_func and then every callback of its ready queue
FairSpec == Init /\ [][ExitNext]_vars /\ WF_vars(AppFuncStart) /\ WF_vars(RunReady)

(* ------------------------------ claims --------------------------------- *)
\* C1 (as claimed): once the UI event loop has ended, for any reason, every
\* stream task is cancelled: it has terminated or its cancellation is on its way
C1_UiEndCancelsAllStreams ==
    ui \in {"returned", "raised"} =>
        \A s \in StreamSet : tasks[s] \in Terminated \/ mustCancel[s]

\* C2 (as claimed): when run_until_complete has returned or raised, every stream
\* task that was created has terminated
C2_StreamsTerminatedAtLoopExit ==
    ~Running => \A s \in StreamSet : tasks[s] \in Terminated \cup {"none"}

\* C3: the exit action pressed while all four stream tasks are suspended leads to
\* all four cancelled and the gather, hence run_until_complete, over
C3_ExitWhileAllSuspended ==
    /\ ui = "stopping"
    /\ \A s \in StreamSet : tasks[s] \in Suspended /\ mustCancel[s]

C3_ExitTerminatesAll ==
    C3_ExitWhileAllSuspended ~>
        ((\A s \in StreamSet : tasks[s] = "cancelled") /\ appPc = "done" /\ ~Running)

C3_Witness ==
    /\ \A s \in StreamSet : tasks[s] = "cancelled"
    /\ appResult = "CancelledError"
    /\ main = "closed"

\* C4: a step presents frames of the active stream only; an event delivered on a
\* stream that is not the active view changes no surface, an event with a valid
\* payload delivered on the active stream is presented (so no frame of A is
\* presented once the view is B)
C4_OnlyActiveStreamForwarded ==
    [][\A s \in StreamSet :
          /\ presents'[s] # presents[s] =>
                /\ view_name = s
                /\ \A t \in StreamSet \ {s} :
                      presents'[t] = presents[t] /\ surface'[t] = surface[t]
          /\ (delivered'[s] # delivered[s] /\ view_name # s) =>
                presents' = presents /\ surface' = surface
          /\ (delivered'[s] # delivered[s] /\ view_name = s /\ payload'[s] = "valid") =>
                presents'[s] = presents[s] + 1]_vars

\* rgb's frame came after the switch to left and was dropped, left's was shown
C4_Witness ==
    /\ view_name = "left"
    /\ delivered["rgb"] = 1 /\ payload["rgb"] = "valid" /\ presents["rgb"] = 0
    /\ presents["left"] = 1

\* C5: a stream task that has subscribed, decoded or presented did so with the
\* root widget built
C5_NoStreamBeforeRoot ==
    \A s \in StreamSet :
        (subscriptions[s] > 0 \/ tasks[s] = "recv" \/ delivered[s] > 0
            \/ decodes[s] > 0 \/ presents[s] > 0) => root

\* a task that polled while the root was missing and has presented since
C5_Witness == \E s \in StreamSet : presents[s] > 0 /\ subscriptions[s] = 1 /\ root

\* C6 (as claimed): a malformed payload never ends the stream task: the frame is
\* not presented and the task stays in its subscription
C6_MalformedPayloadSkipped ==
    [][\A s \in StreamSet :
          (delivered'[s] # delivered[s] /\ payload'[s] # "valid") =>
              /\ tasks'[s] = "recv"
              /\ presents' = presents]_vars

\* C7 (as claimed): a transport failure of one stream ends neither the other
\* stream tasks nor the event loop they run on
C7_FailureLeavesOthersRunning ==
    (\E s \in StreamSet : exc[s] = "SubscriptionError") =>
        (outer # "SubscriptionError" /\ appResult # "SubscriptionError")

\* C8 (as claimed): every event delivered on a stream, active or not, is decoded
C8_EveryEventDecoded == \A s \in StreamSet : decodes[s] = delivered[s]

\* C8 (amended): an event is decoded exactly when it is delivered while its stream
\* is the active view and its payload parses as a message; no other step decodes
C8_ActiveEventsDecoded ==
    [][\A s \in StreamSet :
          /\ delivered'[s] # delivered[s] =>
                decodes'[s] = decodes[s] +
                    (IF view_name = s /\ payload'[s] # "badproto" THEN 1 ELSE 0)
          /\ delivered'[s] = delivered[s] => decodes'[s] = decodes[s]]_vars

C8_Witness ==
    \E s \in StreamSet : delivered[s] = 2 /\ decodes[s] = 1 /\ view_name # s

\* C9: an event with a valid payload delivered on the active stream makes exactly
\* one present, on the surface of that stream, of that frame; an event delivered on
\* a stream that is not active makes none
C9_PresentPerActiveValidEvent ==
    [][\A s \in StreamSet :
          delivered'[s] # delivered[s] =>
              IF view_name = s /\ payload'[s] = "valid"
              THEN /\ presents' = [presents EXCEPT ![s] = @ + 1]
                   /\ surface' = [surface EXCEPT ![s] =
                                     [stream |-> s, seq |-> delivered'[s]]]
              ELSE view_name # s => (presents' = presents /\ surface' = surface)]_vars

\* two rgb frames shown, then the view switched and a left frame shown
C9_Witness ==
    /\ presents["rgb"] = 2 /\ surface["rgb"] = [stream |-> "rgb", seq |-> 2]
    /\ presents["left"] = 1 /\ surface["left"] = [stream |-> "left", seq |-> 1]

\* C10: without a service named oak0 app_func fails at once: no stream task is
\* ever created, the UI is never started, and only then is the error raised
C10_MissingConfigFailsAtStartup ==
    /\ (\A i \in 1..Len(config) : config[i] # "oak0") =>
          /\ \A s \in StreamSet : tasks[s] = "none"
          /\ ui = "notstarted" /\ ~root
          /\ appPc = "done" => appResult \in {"RuntimeError", "UnboundLocalError"}
    /\ appResult \in {"RuntimeError", "UnboundLocalError"} =>
          /\ \A i \in 1..Len(config) : config[i] # "oak0"
          /\ \A s \in StreamSet : tasks[s] = "none"

C10_Witness == config = <<>> /\ appPc = "done" /\ main = "crashed"

\* C11 (as claimed): on_exit_btn invoked again after it has stopped the
\* application does not raise, and a stream task that has terminated stays so
C11_SecondExitHarmless ==
    [][/\ ui = "stopping" => ui' # "raised"
       /\ \A s \in StreamSet : tasks[s] \in Terminated => tasks'[s] = tasks[s]]_vars

C13_PresentedInDeliveryOrder ==
    [][\A s \in StreamSet :
          surface'[s] # surface[s] =>
              /\ surface'[s].stream = s
              /\ surface'[s].seq > surface[s].seq
              /\ surface'[s].seq = delivered'[s]
              /\ delivered'[s] = delivered[s] + 1
              /\ presents'[s] = presents[s] + 1]_vars

\* frames 1 and 3 of rgb were shown, frame 2 was not
C13_Witness ==
    /\ delivered["rgb"] = 3 /\ presents["rgb"] = 2
    /\ surface["rgb"] = [stream |-> "rgb", seq |-> 3]

\* C14: the four stream tasks are created together, once; a task that exists is
\* never created again, a task that has terminated stays terminated, and no task
\* subscribes a second time
C14_TasksCreatedOnce ==
    [][\A s \in StreamSet :
          /\ (tasks[s] = "none" /\ tasks'[s] # "none") =>
                /\ \A u \in StreamSet : tasks[u] = "none" /\ tasks'[u] = "created"
                /\ appPc = "start"
          /\ tasks[s] # "none" => tasks'[s] \notin {"none", "created"} \/ tasks'[s] = tasks[s]
          /\ tasks[s] \in Terminated => tasks'[s] = tasks[s]
          /\ subscriptions'[s] <= 1
          /\ tasks[s] \in Terminated => subscriptions'[s] = subscriptions[s]]_vars

\* one task failed, another was cancelled, each after its one subscription
C14_Witness ==
    \E s, u \in StreamSet :
        /\ tasks[s] = "failed" /\ subscriptions[s] = 1
        /\ tasks[u] = "cancelled" /\ subscriptions[u] = 1

\* a stream task whose cancellation was requested receives no event, decodes and
\* presents nothing, and its next step ends it as cancelled: the decode-error
\* handler does not catch the cancellation and the request is never dropped
C15_NoFrameAfterCancel ==
    [][\A s \in StreamSet :
          mustCancel[s] =>
              /\ delivered'[s] = delivered[s]
              /\ decodes'[s] = decodes[s]
              /\ presents'[s] = presents[s]
              /\ surface'[s] = surface[s]
              /\ \/ tasks'[s] = tasks[s] /\ mustCancel'[s]
                 \/ tasks'[s] = "cancelled" /\ ~mustCancel'[s]]_vars

\* a requested cancellation leads to the task being cancelled
C15_CancelLeadsToCancelled ==
    \A s \in StreamSet : mustCancel[s] ~> tasks[s] = "cancelled"

\* C15: cancellation is observed at a suspension point and is never swallowed: once
\* cancel has been requested on a stream task, the task presents no further frame,
\* the decode-error handler does not catch the cancellation, and the task
\* terminates at its current or next suspension point
C15_CancelNotSwallowed ==
    C15_NoFrameAfterCancel /\ C15_CancelLeadsToCancelled

\* C16: a step that changes the active view changes nothing else, so it is no step
\* of a stream task and it cancels, restarts or resubscribes no task and touches
\* no surface
C16_OnlyUpdateViewWritesView ==
    [][view_name' # view_name =>
          /\ ui = "running"
          /\ UNCHANGED <<config, appPc, appResult, main, tasks, exc, mustCancel,
                         async_tasks, root, ui, ready, batch, outer, nfinished,
                         payload, subscriptions, delivered, decodes, presents,
                         surface>>]_vars

\* the view was switched after a frame of rgb was shown: the frame is still there
C16_Witness ==
    /\ view_name = "left"
    /\ surface["rgb"] = [stream |-> "rgb", seq |-> 1]
    /\ \A s \in StreamSet : tasks[s] = "recv" /\ subscriptions[s] = 1

\* C17: at the step that assigns a texture to the surface of a stream, that stream
\* is the active view, before the step and after it
C17_TextureOnlyOfCurrentView ==
    [][\A s \in StreamSet :
          surface'[s] # surface[s] => (view_name = s /\ view_name' = s)]_vars

\* a texture assigned to the surface of right, which became the view after left
C17_Witness ==
    /\ view_name = "right"
    /\ surface["right"] = [stream |-> "right", seq |-> 2]
    /\ delivered["left"] = 1 /\ presents["left"] = 1

\* C18: the UI, the only caller of on_exit_btn, is not started before the four
\* stream tasks are created and stored in self.tasks
C18_TasksStoredBeforeUi ==
    ui # "notstarted" => \A s \in StreamSet : tasks[s] # "none"

\* on_exit_btn has run and has found the four tasks
C18_Witness ==
    ui = "stopping" /\ \A s \in StreamSet : tasks[s] \in Suspended /\ mustCancel[s]

====
